---- MODULE Spec2Model ----
(***************************************************************************)
(* Crawl frontier orchestrator (gradio_app.py: CrawlerManager and the UI   *)
(* handlers) together with its persistent link-state store                 *)
(* (link_database.py: LinkDatabase, one SQLite table crawled_links).       *)
(*                                                                         *)
(* Text is modelled as a sequence of tokens: a URL such as                 *)
(* http://www.a.com/p1 is <<"http://", "www.", "a.com", "/p1">>, and a     *)
(* filter string such as ",a.com" is <<",", "a.com">>.  Python's substring *)
(* test, split, strip and lower are computed on these sequences.           *)
(* A nullable column or an Optional value is <<>> (NULL / None) or <<v>>.  *)
(***************************************************************************)
EXTENDS Integers, Sequences, FiniteSets

VARIABLES
    now,         \* the clock read by CURRENT_TIMESTAMP
    db,          \* table crawled_links: the rows, in rowid order
    is_running,  \* CrawlerManager.is_running
    runs,        \* one record per thread started by start_crawling
    retry,       \* retry_failed_links: the failed rows it has read, if in progress
    clear,       \* clear_all_links: the row count it has read, if in progress
    log_history, \* CrawlerManager.log_history: the entries written by
                 \* start_crawling and by crawl_from_url ahead of its loop
    ret          \* what the UI handler or Store call of the last step returned

vars == <<now, db, is_running, runs, retry, clear, log_history, ret>>

(*************************** bounds of the model ***************************)
MaxClock == 1        \* the clock runs over 0..MaxClock
MaxRuns == 2         \* start requests accepted in one behaviour of SpecThreads
MaxStarts == 1       \* start requests accepted in one behaviour of Spec
MaxDepthInput == 2   \* max_depth is drawn from MinDepth..MaxDepthInput

(******************************* text **************************************)
NULL == <<>>
Some(v) == <<v>>

\* s[from..to] with Python's clipping
Slice(s, from, to) == [i \in 1..(to - from + 1) |-> s[from + i - 1]]

\* Python: sub in s
Contains(sub, s) ==
    \E i \in 0..(Len(s) - Len(sub)) : Slice(s, i + 1, i + Len(sub)) = sub

\* Python: str.lower(), token by token
LowerTok(c) == IF c = "A.COM" THEN "a.com" ELSE IF c = "NEWS" THEN "news" ELSE c
Lower(s) == [i \in 1..Len(s) |-> LowerTok(s[i])]

\* Python: str.strip()
RECURSIVE LStrip(_)
LStrip(s) == IF s # <<>> /\ Head(s) = " " THEN LStrip(Tail(s)) ELSE s
RECURSIVE RStrip(_)
RStrip(s) ==
    IF s # <<>> /\ s[Len(s)] = " " THEN RStrip(SubSeq(s, 1, Len(s) - 1)) ELSE s
Strip(s) == RStrip(LStrip(s))

\* Python: s.split(','): the pieces between the commas, empty ones included
RECURSIVE SplitAcc(_, _)
SplitAcc(s, cur) ==
    IF s = <<>> THEN <<cur>>
    ELSE IF Head(s) = "," THEN <<cur>> \o SplitAcc(Tail(s), <<>>)
    ELSE SplitAcc(Tail(s), Append(cur, Head(s)))
Split(s) == SplitAcc(s, <<>>)

(******************************** URLs *************************************)
UrlRoot == <<"http://", "a.com", "/">>
UrlP1 == <<"http://", "a.com", "/p1">>
UrlP2 == <<"http://", "www.", "a.com", "/p2">>
UrlOther == <<"http://", "b.com", "/x">>
Urls == {UrlRoot, UrlP1, UrlP2, UrlOther}

IsPathTok(c) == c \in {"/", "/p1", "/p2", "/x"}

\* urlparse(url).netloc: what follows the scheme, up to the path
RECURSIVE UpToPath(_)
UpToPath(s) ==
    IF s = <<>> \/ IsPathTok(Head(s)) THEN <<>>
    ELSE <<Head(s)>> \o UpToPath(Tail(s))
netloc(url) == IF url = <<>> THEN <<>> ELSE UpToPath(Tail(url))

get_domain_without_www(domain) ==
    IF domain = <<>> THEN <<>>
    ELSE IF Head(domain) = "www." THEN Tail(domain)
    ELSE domain

(********************** LinkDatabase: table crawled_links ******************)
\* The columns markdown_path, html_path and file_size are written by
\* update_link_success only and read by nothing modelled here; they are left out.

Statuses == {"pending", "success", "failed"}

\* INSERT ... VALUES (?, ?, 'pending'): the column defaults fill the rest
NewRow(url, title, ts) ==
    [url |-> url, title |-> title, status |-> "pending", discovered_at |-> ts,
     crawled_at |-> NULL, error_message |-> NULL, content_type |-> NULL]

RowIdx(t, url) == {i \in 1..Len(t) : t[i].url = url}

\* INSERT OR REPLACE in place of INSERT OR IGNORE: a second discovery rewrites
\* the row as a fresh pending one
record_link_discovered_replace(t, url, title, ts, ok) ==
    IF ~ok THEN [db |-> t, ret |-> FALSE]
    ELSE [db |-> [i \in 1..Len(t) |-> IF t[i].url = url THEN NewRow(url, title, ts)
                                       ELSE t[i]]
                 \o (IF RowIdx(t, url) = {} THEN <<NewRow(url, title, ts)>> ELSE <<>>),
          ret |-> TRUE]

\* INSERT OR IGNORE against the UNIQUE constraint on url; ok = FALSE is an
\* sqlite3.Error, which the method catches
record_link_discovered(t, url, title, ts, ok) ==
    IF ~ok THEN [db |-> t, ret |-> FALSE]
    ELSE IF RowIdx(t, url) # {} THEN [db |-> t, ret |-> FALSE]
    ELSE [db |-> Append(t, NewRow(url, title, ts)), ret |-> TRUE]

\* COALESCE(?, title)
Coalesce(a, b) == IF a # NULL THEN a ELSE b

\* INSERT … ON CONFLICT(url) DO UPDATE in place of UPDATE: a missing row is
\* created as a success row
update_link_success_upsert(t, url, title, content_type, ts, ok) ==
    IF ~ok THEN [db |-> t, ret |-> FALSE]
    ELSE IF RowIdx(t, url) = {}
    THEN [db |-> Append(t, [NewRow(url, Coalesce(title, NULL), ts) EXCEPT
                               !.status = "success",
                               !.crawled_at = Some(ts),
                               !.content_type = Some(content_type)]),
          ret |-> TRUE]
    ELSE [db |-> [i \in 1..Len(t) |->
                    IF t[i].url = url
                    THEN [t[i] EXCEPT !.status = "success",
                                      !.title = Coalesce(title, t[i].title),
                                      !.crawled_at = Some(ts),
                                      !.content_type = Some(content_type),
                                      !.error_message = NULL]
                    ELSE t[i]],
          ret |-> TRUE]

update_link_success(t, url, title, content_type, ts, ok) ==
    IF ~ok THEN [db |-> t, ret |-> FALSE]
    ELSE [db |-> [i \in 1..Len(t) |->
                    IF t[i].url = url
                    THEN [t[i] EXCEPT !.status = "success",
                                      !.title = Coalesce(title, t[i].title),
                                      !.crawled_at = Some(ts),
                                      !.content_type = Some(content_type),
                                      !.error_message = NULL]
                    ELSE t[i]],
          ret |-> RowIdx(t, url) # {}]

\* SET status = 'error' in place of 'failed'
update_link_failed_error(t, url, error_message, ts, ok) ==
    IF ~ok THEN [db |-> t, ret |-> FALSE]
    ELSE [db |-> [i \in 1..Len(t) |->
                    IF t[i].url = url
                    THEN [t[i] EXCEPT !.status = "error",
                                      !.crawled_at = Some(ts),
                                      !.error_message = Some(error_message)]
                    ELSE t[i]],
          ret |-> RowIdx(t, url) # {}]

\* SET status = 'failed', error_message = ? alone: crawled_at stays
update_link_failed_keep_time(t, url, error_message, ts, ok) ==
    IF ~ok THEN [db |-> t, ret |-> FALSE]
    ELSE [db |-> [i \in 1..Len(t) |->
                    IF t[i].url = url
                    THEN [t[i] EXCEPT !.status = "failed",
                                      !.error_message = Some(error_message)]
                    ELSE t[i]],
          ret |-> RowIdx(t, url) # {}]

update_link_failed(t, url, error_message, ts, ok) ==
    IF ~ok THEN [db |-> t, ret |-> FALSE]
    ELSE [db |-> [i \in 1..Len(t) |->
                    IF t[i].url = url
                    THEN [t[i] EXCEPT !.status = "failed",
                                      !.crawled_at = Some(ts),
                                      !.error_message = Some(error_message)]
                    ELSE t[i]],
          ret |-> RowIdx(t, url) # {}]

\* ORDER BY discovered_at DESC, read backwards off idx_discovered_at: among
\* equal timestamps the later rowid comes first
RECURSIVE OrderByDiscoveredDesc(_)
OrderByDiscoveredDesc(rows) ==
    IF rows = <<>> THEN <<>>
    ELSE LET best == CHOOSE i \in 1..Len(rows) :
                        \A j \in 1..Len(rows) :
                            \/ rows[j].discovered_at < rows[i].discovered_at
                            \/ rows[j].discovered_at = rows[i].discovered_at /\ j <= i
         IN  <<rows[best]>> \o
             OrderByDiscoveredDesc(SubSeq(rows, 1, best - 1) \o
                                   SubSeq(rows, best + 1, Len(rows)))

\* the WHERE status = ? clause left out: every row is selected
get_links_by_status_all(t, status, ok) ==
    IF ~ok THEN <<>> ELSE OrderByDiscoveredDesc(t)

\* status = NULL or a blank string selects every row; ok = FALSE is an
\* sqlite3.Error, which the method catches to return []
get_links_by_status(t, status, ok) ==
    IF ~ok THEN <<>>
    ELSE IF status = NULL \/ Strip(status) = <<>>
    THEN OrderByDiscoveredDesc(t)
    ELSE LET Match(r) == <<r.status>> = status
         IN  OrderByDiscoveredDesc(SelectSeq(t, Match))

RECURSIVE SumOver(_, _)
SumOver(f, S) ==
    IF S = {} THEN 0
    ELSE LET x == CHOOSE y \in S : TRUE IN f[x] + SumOver(f, S \ {x})

\* SELECT status, COUNT(*) ... GROUP BY status, then the dict built from it
get_crawl_statistics(t) ==
    LET groups == {t[i].status : i \in 1..Len(t)}
        stats == [s \in groups |-> Cardinality({i \in 1..Len(t) : t[i].status = s})]
        Get(s) == IF s \in groups THEN stats[s] ELSE 0
    IN  [total |-> SumOver(stats, groups), pending |-> Get("pending"),
         success |-> Get("success"), failed |-> Get("failed")]

\* status IN ('success') in place of ('success', 'failed')
is_link_processed_success_only(t, url, ok) ==
    ok /\ \E i \in 1..Len(t) : t[i].url = url /\ t[i].status = "success"

\* ok = FALSE is an sqlite3.Error in the SELECT, which the method catches to
\* return False
is_link_processed(t, url, ok) ==
    ok /\ \E i \in 1..Len(t) : t[i].url = url /\ t[i].status \in {"success", "failed"}

\* no row is ever reported: every link counts as new
is_link_exists_never(t, url, ok) == FALSE

is_link_exists(t, url, ok) == ok /\ RowIdx(t, url) # {}

\* SET status = 'pending' alone: the error message and the crawl time stay
ResetStatusOnly(t, urls) ==
    [i \in 1..Len(t) |->
        IF t[i].url \in urls THEN [t[i] EXCEPT !.status = "pending"] ELSE t[i]]

\* retry_failed_links, the writes: for each row read, UPDATE ... WHERE url = ?
ResetToPending(t, urls) ==
    [i \in 1..Len(t) |->
        IF t[i].url \in urls
        THEN [t[i] EXCEPT !.status = "pending", !.error_message = NULL,
                          !.crawled_at = NULL]
        ELSE t[i]]

(************************ link extraction and filter ***********************)
IsHttp(u) == u # <<>> /\ Head(u) \in {"http://", "https://"}

\* the URL kept with its fragment
KeepFragment(u) == u

\* u.split('#', 1)[0]
RECURSIVE StripFragment(_)
StripFragment(u) ==
    IF u = <<>> \/ Head(u) = "#frag" THEN <<>>
    ELSE <<Head(u)>> \o StripFragment(Tail(u))

\* list(dict.fromkeys(xs))
RECURSIVE DedupFrom(_, _)
DedupFrom(xs, seen) ==
    IF xs = <<>> THEN seen
    ELSE DedupFrom(Tail(xs),
                   IF \E i \in 1..Len(seen) : seen[i] = Head(xs) THEN seen
                   ELSE Append(seen, Head(xs)))
Dedup(xs) == DedupFrom(xs, <<>>)

MapStrip(xs) == [i \in 1..Len(xs) |-> StripFragment(xs[i])]

\* Markdown text is its link occurrences in order: [label](target) constructs
\* (kind "link") and bare URLs (kind "bare"); HTML text is the href values of
\* its anchors in order.  A NULL text is None or the empty string.
extract_links_from_content(markdown_text, html_text) ==
    LET items == IF markdown_text = NULL THEN <<>> ELSE markdown_text[1]
        IsLink(x) == x.kind = "link" /\ IsHttp(x.target)
        IsUrl(x) == IsHttp(x.target)
        Targets(xs) == [i \in 1..Len(xs) |-> xs[i].target]
        md_links == Targets(SelectSeq(items, IsLink))
        bare_urls == Targets(SelectSeq(items, IsUrl))
        hrefs == IF html_text = NULL THEN <<>> ELSE SelectSeq(html_text[1], IsHttp)
    IN  Dedup(MapStrip(md_links) \o MapStrip(bare_urls) \o MapStrip(hrefs))

\* any(...) in place of all(...): a link is kept when it holds one keyword
filter_links_any(links, filter_text) ==
    IF filter_text = <<>> \/ Strip(filter_text) = <<>> THEN links
    ELSE LET pieces == Split(filter_text)
             NonEmpty(k) == Strip(k) # <<>>
             kept == SelectSeq(pieces, NonEmpty)
             keywords == {Lower(Strip(kept[i])) : i \in 1..Len(kept)}
             Keep(link) == \E k \in keywords : Contains(k, Lower(link))
         IN  SelectSeq(links, Keep)

filter_links(links, filter_text) ==
    IF filter_text = <<>> \/ Strip(filter_text) = <<>> THEN links
    ELSE LET pieces == Split(filter_text)
             NonEmpty(k) == Strip(k) # <<>>
             kept == SelectSeq(pieces, NonEmpty)
             keywords == {Lower(Strip(kept[i])) : i \in 1..Len(kept)}
             Keep(link) == \A k \in keywords : Contains(k, Lower(link))
         IN  SelectSeq(links, Keep)

\* validate_url without the test of the scheme
validate_url_any_scheme(url) ==
    IF url = <<>> \/ Strip(url) = <<>> THEN NULL ELSE Some(Strip(url))

\* validate_url: Some(the stripped URL), or NULL where it raises gr.Error
validate_url(url) ==
    IF url = <<>> \/ Strip(url) = <<>> THEN NULL
    ELSE IF ~IsHttp(Strip(url)) THEN NULL
    ELSE Some(Strip(url))

\* validate_link_filters: Some(the stripped filter), or NULL where it raises gr.Error
validate_link_filters(filter_text) ==
    IF filter_text = <<>> \/ Strip(filter_text) = <<>> THEN Some(<<>>)
    ELSE LET pieces == Split(filter_text)
         IN  IF \E i \in 1..Len(pieces) : Strip(pieces[i]) = <<>> THEN NULL
             ELSE Some(Strip(filter_text))

(****************************** fetched pages ******************************)
MdLink(u) == [kind |-> "link", target |-> u]
BareUrl(u) == [kind |-> "bare", target |-> u]

\* markdown with a heading; the same link twice, once with a fragment
PageMarkdown ==
    [markdown |-> Some(<<MdLink(UrlP1 \o <<"#frag">>), BareUrl(UrlOther), BareUrl(UrlP1)>>),
     md_title |-> Some(<<"T">>), html |-> NULL, html_title |-> NULL]
\* HTML only, no title, one relative link
PageHtml ==
    [markdown |-> NULL, md_title |-> NULL,
     html |-> Some(<<UrlP2, <<"/rel">>, UrlRoot>>), html_title |-> NULL]
\* neither markdown nor HTML
PageNone == [markdown |-> NULL, md_title |-> NULL, html |-> NULL, html_title |-> NULL]
Pages == {PageMarkdown, PageHtml, PageNone}
\* markdown and HTML together, the title in the HTML
PageBoth ==
    [markdown |-> Some(<<BareUrl(UrlP1)>>), md_title |-> NULL,
     html |-> Some(<<UrlP2>>), html_title |-> Some(<<"H">>)]
AllPages == Pages \cup {PageBoth}

\* extract_page_title_from_html / _from_markdown: None for an empty text
extract_page_title_from_html(page) == IF page.html = NULL THEN NULL ELSE page.html_title
extract_page_title_from_markdown(page) ==
    IF page.markdown = NULL THEN NULL ELSE page.md_title

(************************* inputs of the UI handlers ***********************)
MinDepth == 1
UrlFtp == <<"ftp://", "a.com", "/">>
\* "http:///a.com/": validate_url accepts it, urlparse gives it an empty
\* netloc (url_to_file_paths then saves under "unknown-host"), and the browser
\* resolves it to the host a.com
UrlNoHost == <<"http://", "/", "a.com", "/">>
UrlInputs == {UrlRoot, UrlOther, <<>>, <<" ">>, UrlFtp}
FilterInputs == {<<>>, <<"/p1">>, <<",">>, <<"/p1", ",", " ", ",", "a.com">>}
DepthInputs == MinDepth..MaxDepthInput
ErrorTexts == {"timeout"}

(******************************* Init **************************************)
Idle == [pc |-> "idle", failed_links |-> <<>>]
NoClear == [pc |-> "idle", total_count |-> 0]
\* what a handler or a Store method returns: a bool, a message or a message
\* that carries a count
Bool(b) == [bool |-> b]
Msg(m) == [msg |-> m]
Count(n) == [count |-> n]
NoRet == [op |-> "none", url |-> <<>>, val |-> NULL]

\* LinkDatabase.__init__ keeps the table it finds (CREATE TABLE IF NOT EXISTS):
\* a new table, or the rows an earlier session left, here a session that was
\* stopped after recording its start URL, one whose only fetch failed, and one
\* that was stopped after its first page.
PersistedTables ==
    {<<>>,
     <<NewRow(UrlRoot, NULL, 0)>>,
     <<[NewRow(UrlRoot, NULL, 0) EXCEPT !.status = "failed", !.crawled_at = Some(0),
                                        !.error_message = Some("timeout")]>>,
     <<[NewRow(UrlRoot, NULL, 0) EXCEPT !.status = "success", !.crawled_at = Some(0),
                                        !.title = Some(<<"T">>),
                                        !.content_type = Some("markdown")],
       NewRow(UrlP1, NULL, 0)>>}

Init ==
    /\ now = 0
    /\ db \in PersistedTables
    /\ is_running = FALSE
    /\ runs = <<>>
    /\ retry = Idle
    /\ clear = NoClear
    /\ log_history = <<>>
    /\ ret = NoRet

(********************** CrawlerManager.log_history *************************)
\* log_message, lines 94-111: the entry is appended (the cap of 1000 entries
\* is out of reach here)
log_message(history, message) == Append(history, message)

\* clear_logs, lines 409-418
clear_logs(history) == log_message(<<>>, "logs cleared")

(************************** start_crawling (UI) ****************************)
\* base_filters keeps the link_filters argument as it was passed: the loop
\* rebinds the name link_filters to the filter it builds (line 316)
NewRun(start_url, link_filters, max_depth) ==
    [pc |-> "check", start_url |-> start_url, link_filters |-> link_filters,
     base_filters |-> link_filters, max_depth |-> max_depth, crawl_queue |-> <<>>, processed_count |-> 0,
     success_count |-> 0, current_url |-> <<>>, current_depth |-> 0,
     page |-> PageNone, new_links |-> <<>>,
     stop_seen |-> FALSE, fetch_failed |-> {}]

\* start_crawling: validate, then start the thread that runs crawl_from_url
start_crawling(url, link_filters, max_depth) ==
    /\ LET validated_url == validate_url(url)
           validated_filters == validate_link_filters(link_filters)
       IN  IF validated_url = NULL \/ validated_filters = NULL
           THEN /\ ret' = [op |-> "start_crawling", url |-> <<>>, val |-> Msg("input error")]
                /\ UNCHANGED <<runs, log_history>>
           ELSE /\ log_history' = log_message(clear_logs(log_history), "start banner")
                /\ runs' = Append(runs, NewRun(validated_url[1], validated_filters[1],
                                               max_depth))
                /\ ret' = [op |-> "start_crawling", url |-> <<>>, val |-> Msg("started")]
    /\ UNCHANGED <<now, db, is_running, retry, clear>>

(*********************** CrawlerManager.stop_crawling **********************)
Active(r) == r.pc \notin {"check", "set", "done"}

\* The run is inside the while loop of crawl_from_url.
Running(r) == r.pc \in {"loop", "single", "fetch", "links", "enqueue"}

stop_crawling ==
    /\ IF is_running
       THEN /\ is_running' = FALSE
            /\ runs' = [i \in 1..Len(runs) |->
                          IF Running(runs[i]) /\ runs[i].crawl_queue # <<>>
                          THEN [runs[i] EXCEPT !.stop_seen = TRUE]
                          ELSE runs[i]]
            /\ ret' = [op |-> "stop_crawling", url |-> <<>>, val |-> Msg("stop sent")]
       ELSE /\ ret' = [op |-> "stop_crawling", url |-> <<>>, val |-> Msg("not running")]
            /\ UNCHANGED <<is_running, runs>>
    /\ UNCHANGED <<now, db, retry, clear, log_history>>

(******************* CrawlerManager.crawl_from_url (thread i) **************)
\* Each action is one step of thread i between two points where another thread
\* can run: a Store call is its own transaction, the fetch is awaited.  oks is
\* the set of outcomes of a Store write or of the browser start (FALSE: it
\* raises), pages the set of pages arun can return.  current_url is cleared at
\* the end of an iteration: the loop assigns it before it reads it again.
Upd(i, r) == runs' = [runs EXCEPT ![i] = r]

\* line 266: the test of is_running; a rejected call returns before the try
CheckRunning(i) ==
    /\ runs[i].pc = "check"
    /\ Upd(i, [runs[i] EXCEPT !.pc = IF is_running THEN "done" ELSE "set"])
    /\ log_history' = IF is_running THEN log_message(log_history, "already running")
                                     ELSE log_history
    /\ ret' = NoRet /\ UNCHANGED <<now, db, is_running, retry, clear>>

\* line 270
SetRunning(i) ==
    /\ runs[i].pc = "set"
    /\ is_running' = TRUE
    /\ Upd(i, [runs[i] EXCEPT !.pc = "init"])
    /\ log_history' = log_message(log_history, "task started")
    /\ ret' = NoRet /\ UNCHANGED <<now, db, retry, clear>>

QueueOf(rows) == [k \in 1..Len(rows) |-> <<rows[k].url, 0>>]

\* lines 280-292: enter the crawler (the browser may fail to start, which the
\* outer except catches), then queue every pending row that the read returns
\* and the start URL
InitQueue(i, oks) ==
    /\ runs[i].pc = "init"
    /\ \E browser_ok \in oks, read_ok \in oks :
         IF browser_ok
         THEN Upd(i, [runs[i] EXCEPT
                        !.pc = "seed",
                        !.crawl_queue =
                            Append(QueueOf(get_links_by_status(db, <<"pending">>, read_ok)),
                                   <<runs[i].start_url, 0>>)])
         ELSE Upd(i, [runs[i] EXCEPT !.pc = "finally"])
    /\ ret' = NoRet /\ UNCHANGED <<now, db, is_running, retry, clear, log_history>>

\* an INSERT that raises ends the run: the error reaches the except of line 370
RecordStartAbort(i, oks) ==
    /\ runs[i].pc = "seed"
    /\ \E ok \in oks :
         /\ db' = record_link_discovered(db, runs[i].start_url, NULL, now, ok).db
         /\ Upd(i, [runs[i] EXCEPT !.pc = IF ok THEN "loop" ELSE "finally"])
    /\ ret' = NoRet /\ UNCHANGED <<now, is_running, retry, clear, log_history>>

\* line 296
RecordStart(i, oks) ==
    /\ runs[i].pc = "seed"
    /\ \E ok \in oks :
         db' = record_link_discovered(db, runs[i].start_url, NULL, now, ok).db
    /\ Upd(i, [runs[i] EXCEPT !.pc = "loop"])
    /\ ret' = NoRet /\ UNCHANGED <<now, is_running, retry, clear, log_history>>

\* the filter left as the user gave it
AnchorFilterNone(link_filters, current_url) == link_filters

\* link_filters = "," + domain_variants: what the filter held is dropped
AnchorFilterReplace(link_filters, current_url) ==
    <<",">> \o get_domain_without_www(netloc(current_url))

\* lines 313-316
AnchorFilter(link_filters, current_url) ==
    LET domain_variants == get_domain_without_www(netloc(current_url))
    IN  IF ~Contains(domain_variants, link_filters)
        THEN link_filters \o <<",">> \o domain_variants
        ELSE link_filters

\* crawl_queue[0] in place of crawl_queue.pop(0): the entry stays at the front
DequeuePeek(i) ==
    /\ runs[i].pc = "loop"
    /\ IF runs[i].crawl_queue # <<>> /\ is_running
       THEN LET entry == Head(runs[i].crawl_queue)
            IN  Upd(i, [runs[i] EXCEPT
                          !.pc = IF entry[2] = 0 THEN "fetch" ELSE "single",
                          !.current_url = entry[1],
                          !.current_depth = entry[2],
                          !.link_filters = AnchorFilter(@, entry[1])])
       ELSE Upd(i, [runs[i] EXCEPT !.pc = "finally"])
    /\ ret' = NoRet /\ UNCHANGED <<now, db, is_running, retry, clear, log_history>>

\* lines 302-316: the loop test, then the dequeue; lines 361-368 on exit.
\* A depth-0 entry skips the processed check (line 324) and goes to the fetch.
Dequeue(i) ==
    /\ runs[i].pc = "loop"
    /\ IF runs[i].crawl_queue # <<>> /\ is_running
       THEN LET entry == Head(runs[i].crawl_queue)
            IN  Upd(i, [runs[i] EXCEPT
                          !.pc = IF entry[2] = 0 THEN "fetch" ELSE "single",
                          !.crawl_queue = Tail(@),
                          !.processed_count = @ + 1,
                          !.current_url = entry[1],
                          !.current_depth = entry[2],
                          !.link_filters = AnchorFilter(@, entry[1])])
       ELSE Upd(i, [runs[i] EXCEPT !.pc = "finally"])
    /\ ret' = NoRet /\ UNCHANGED <<now, db, is_running, retry, clear, log_history>>

\* skip_processed_check = True for every entry: no entry is skipped
ProcessedCheckSkipped(i) ==
    /\ runs[i].pc = "single"
    /\ Upd(i, [runs[i] EXCEPT !.pc = "fetch"])
    /\ ret' = NoRet /\ UNCHANGED <<now, db, is_running, retry, clear, log_history>>

\* crawl_single_url lines 155-157: the processed check of an entry of depth > 0;
\* a skipped entry returns (True, []) and is counted at line 328.  The SELECT
\* of the check is taken to run without an sqlite3.Error.
ProcessedCheck(i) ==
    /\ runs[i].pc = "single"
    /\ IF is_link_processed(db, runs[i].current_url, TRUE)
       THEN Upd(i, [runs[i] EXCEPT !.pc = "loop", !.success_count = @ + 1,
                                  !.current_url = <<>>])
       ELSE Upd(i, [runs[i] EXCEPT !.pc = "fetch"])
    /\ ret' = NoRet /\ UNCHANGED <<now, db, is_running, retry, clear, log_history>>

\* the HTML branch tested before the markdown branch
ContentTypeHtmlFirst(page) ==
    IF page.html # NULL THEN "html"
    ELSE IF page.markdown # NULL THEN "markdown"
    ELSE "placeholder"

\* lines 180-195: the branch that saves the page names the content type
ContentType(page) ==
    IF page.markdown # NULL THEN "markdown"
    ELSE IF page.html # NULL THEN "html"
    ELSE "placeholder"

\* title_from_html or title_from_md
FilenameStem(page) ==
    IF extract_page_title_from_html(page) # NULL THEN extract_page_title_from_html(page)
    ELSE extract_page_title_from_markdown(page)

\* lines 165-199: arun returns a page, which is saved and recorded; a page
\* with no content gives no links and is counted at line 328
FetchReturns(i, pages, oks) ==
    /\ runs[i].pc = "fetch"
    /\ \E page \in pages, ok \in oks :
         /\ db' = update_link_success(db, runs[i].current_url, FilenameStem(page),
                                      ContentType(page), now, ok).db
         /\ IF page.markdown # NULL \/ page.html # NULL
            THEN Upd(i, [runs[i] EXCEPT !.page = page, !.pc = "links"])
            ELSE Upd(i, [runs[i] EXCEPT !.pc = "loop", !.success_count = @ + 1,
                                       !.current_url = <<>>])
    /\ ret' = NoRet /\ UNCHANGED <<now, is_running, retry, clear, log_history>>

\* lines 165, 226-231: arun raises; the except records the failure, and
\* crawl_from_url goes on to the next entry (line 350)
FetchRaises(i, oks) ==
    /\ runs[i].pc = "fetch"
    /\ \E error_msg \in ErrorTexts, ok \in oks :
         db' = update_link_failed(db, runs[i].current_url, error_msg, now, ok).db
    /\ Upd(i, [runs[i] EXCEPT !.pc = "loop",
                              !.fetch_failed = @ \cup {runs[i].current_url},
                              !.current_url = <<>>])
    /\ ret' = NoRet /\ UNCHANGED <<now, is_running, retry, clear, log_history>>

\* lines 198-224: extract, filter, keep the links that have no row
NewLinks(t, page, link_filters) ==
    IF page.markdown = NULL /\ page.html = NULL THEN <<>>
    ELSE LET extracted_links == extract_links_from_content(page.markdown, page.html)
             filtered == IF link_filters # <<>> /\ Strip(link_filters) # <<>>
                         THEN filter_links(extracted_links, link_filters)
                         ELSE extracted_links
             IsNew(u) == ~is_link_exists(t, u, TRUE)
         IN  SelectSeq(filtered, IsNew)

\* line 208 binds filtered_count only under a filter that is not blank
FilteredCountBound(link_filters) == link_filters # <<>> /\ Strip(link_filters) # <<>>

\* lines 198-224 as a step of thread i.  Line 218 reads filtered_count when
\* there are new links: where no filter was applied the name is unbound, the
\* NameError is caught at line 226 and the URL, already recorded as fetched,
\* is recorded as failed (line 230); crawl_from_url goes on at line 350.
ExtractLinks(i, oks) ==
    /\ runs[i].pc = "links"
    /\ LET new_links == NewLinks(db, runs[i].page, runs[i].link_filters)
       IN  IF new_links # <<>> /\ ~FilteredCountBound(runs[i].link_filters)
           THEN /\ \E ok \in oks :
                     db' = update_link_failed(db, runs[i].current_url,
                                              "filtered_count is not defined", now, ok).db
                /\ Upd(i, [runs[i] EXCEPT !.pc = "loop", !.page = PageNone,
                                          !.current_url = <<>>])
           ELSE /\ db' = db
                /\ Upd(i, [runs[i] EXCEPT !.pc = "enqueue", !.page = PageNone,
                                          !.new_links = new_links])
    /\ ret' = NoRet /\ UNCHANGED <<now, is_running, retry, clear, log_history>>

is_url_in_queue(queue, url) == \E k \in 1..Len(queue) : queue[k][1] = url

\* crawl_queue.insert(0, …) in place of append: the frontier as a stack
QueuePush(queue, entry) == <<entry>> \o queue

\* line 338: crawl_queue.append((new_url, current_depth + 1))
QueueAppend(queue, entry) == Append(queue, entry)

\* current_depth <= max_depth in place of <
AtOrBelowMaxDepth(current_depth, max_depth) == current_depth <= max_depth

\* line 332: current_depth < max_depth
BelowMaxDepth(current_depth, max_depth) == current_depth < max_depth

\* lines 335-343: each new link that is not queued is queued and recorded;
\* fails holds the links whose INSERT raises sqlite3.Error
RECURSIVE AddLinks(_, _, _, _, _, _)
AddLinks(queue, t, links, depth, ts, fails) ==
    IF links = <<>> THEN [queue |-> queue, db |-> t]
    ELSE LET new_url == Head(links)
         IN  IF is_url_in_queue(queue, new_url)
             THEN AddLinks(queue, t, Tail(links), depth, ts, fails)
             ELSE AddLinks(QueueAppend(queue, <<new_url, depth + 1>>),
                           record_link_discovered(t, new_url, NULL, ts,
                                                  new_url \notin fails).db,
                           Tail(links), depth, ts, fails)

\* lines 327-348, then the sleep of line 353
Enqueue(i, oks) ==
    /\ runs[i].pc = "enqueue"
    /\ IF BelowMaxDepth(runs[i].current_depth, runs[i].max_depth)
          /\ runs[i].new_links # <<>>
       THEN \E fails \in IF FALSE \in oks
                         THEN SUBSET {runs[i].new_links[k] : k \in 1..Len(runs[i].new_links)}
                         ELSE {{}} :
              LET added == AddLinks(runs[i].crawl_queue, db, runs[i].new_links,
                                    runs[i].current_depth, now, fails)
              IN  /\ db' = added.db
                  /\ Upd(i, [runs[i] EXCEPT !.pc = "loop",
                                            !.success_count = @ + 1,
                                            !.crawl_queue = added.queue,
                                            !.new_links = <<>>,
                                            !.current_url = <<>>])
       ELSE /\ db' = db
            /\ Upd(i, [runs[i] EXCEPT !.pc = "loop",
                                      !.success_count = @ + 1,
                                      !.new_links = <<>>,
                                      !.current_url = <<>>])
    /\ ret' = NoRet /\ UNCHANGED <<now, is_running, retry, clear, log_history>>

\* lines 372-374
Finally(i) ==
    /\ runs[i].pc = "finally"
    /\ is_running' = FALSE
    /\ Upd(i, [runs[i] EXCEPT !.pc = "done"])
    /\ ret' = NoRet /\ UNCHANGED <<now, db, retry, clear, log_history>>

(************************ retry_failed_links (UI) **************************)
\* of the rows read, only the url column is used: link['url']
UrlColumn(rows) == [k \in 1..Len(rows) |-> rows[k].url]

\* line 949-951: the failed rows are read in a transaction of their own; a
\* read that raises returns no rows
RetryRead ==
    /\ retry.pc = "idle"
    /\ \E read_ok \in BOOLEAN :
       LET failed_links == UrlColumn(get_links_by_status(db, <<"failed">>, read_ok))
       IN  IF failed_links = <<>>
           THEN /\ ret' = [op |-> "retry_failed_links", url |-> <<>>, val |-> Msg("nothing to retry")]
                /\ UNCHANGED retry
           ELSE /\ retry' = [pc |-> "write", failed_links |-> failed_links]
                /\ ret' = NoRet
    /\ UNCHANGED <<now, db, is_running, runs, clear, log_history>>

\* lines 954-973: one UPDATE per row read, counted whether or not it matched
\* a row, in one transaction; ok = FALSE is the outer except, whose message
\* carries no count
RetryWrite ==
    /\ retry.pc = "write"
    /\ \E ok \in BOOLEAN :
         IF ok
         THEN /\ db' = ResetToPending(db, {retry.failed_links[k] :
                                               k \in 1..Len(retry.failed_links)})
              /\ ret' = [op |-> "retry_failed_links", url |-> <<>>, val |-> Count(Len(retry.failed_links))]
         ELSE /\ db' = db
              /\ ret' = [op |-> "retry_failed_links", url |-> <<>>, val |-> NULL]
    /\ retry' = Idle
    /\ UNCHANGED <<now, is_running, runs, clear, log_history>>

(************************** clear_all_links (UI) ***************************)
\* lines 976-989: the confirmation test, then SELECT COUNT(*), which sqlite3
\* runs outside the transaction that the DELETE opens
clear_all_links(confirm) ==
    /\ clear.pc = "idle"
    /\ IF ~confirm
       THEN /\ ret' = [op |-> "clear_all_links", url |-> <<>>, val |-> Msg("please confirm")]
            /\ UNCHANGED clear
       ELSE IF Len(db) = 0
       THEN /\ ret' = [op |-> "clear_all_links", url |-> <<>>, val |-> Msg("nothing to clear")]
            /\ UNCHANGED clear
       ELSE /\ clear' = [pc |-> "delete", total_count |-> Len(db)]
            /\ ret' = NoRet
    /\ UNCHANGED <<now, db, is_running, runs, retry, log_history>>

\* lines 991-998: DELETE FROM crawled_links and the commit; ok = FALSE is the
\* except, whose message carries no count
ClearDelete ==
    /\ clear.pc = "delete"
    /\ \E ok \in BOOLEAN :
         IF ok
         THEN /\ db' = <<>>
              /\ ret' = [op |-> "clear_all_links", url |-> <<>>, val |-> Count(clear.total_count)]
         ELSE /\ db' = db
              /\ ret' = [op |-> "clear_all_links", url |-> <<>>, val |-> NULL]
    /\ clear' = NoClear
    /\ UNCHANGED <<now, is_running, runs, retry, log_history>>

(******************************** clock ************************************)
Tick ==
    /\ now < MaxClock
    /\ now' = now + 1
    /\ ret' = NoRet
    /\ UNCHANGED <<db, is_running, runs, retry, clear, log_history>>

(***************************** the program *********************************)
Start(urls, filters, depths, limit) ==
    /\ Len(runs) < limit
    /\ \E url \in urls, link_filters \in filters, max_depth \in depths :
          start_crawling(url, link_filters, max_depth)

\* One crawl of a session, with every UI handler, on a table that may hold the
\* rows of earlier sessions.  The clock stands still: rowid order and
\* discovered_at order agree whatever the clock does, for it never runs back.
Next ==
    \/ Start(UrlInputs, FilterInputs, DepthInputs, MaxStarts)
    \/ stop_crawling
    \/ \E i \in 1..Len(runs) : CheckRunning(i)
    \/ \E i \in 1..Len(runs) : SetRunning(i)
    \/ \E i \in 1..Len(runs) : InitQueue(i, {TRUE})
    \/ \E i \in 1..Len(runs) : RecordStart(i, {TRUE})
    \/ \E i \in 1..Len(runs) : Dequeue(i)
    \/ \E i \in 1..Len(runs) : ProcessedCheck(i)
    \/ \E i \in 1..Len(runs) : FetchReturns(i, Pages, {TRUE})
    \/ \E i \in 1..Len(runs) : FetchRaises(i, {TRUE})
    \/ \E i \in 1..Len(runs) : ExtractLinks(i, {TRUE})
    \/ \E i \in 1..Len(runs) : Enqueue(i, {TRUE})
    \/ \E i \in 1..Len(runs) : Finally(i)
    \/ RetryRead
    \/ RetryWrite
    \/ \E confirm \in BOOLEAN : clear_all_links(confirm)
    \/ ClearDelete

Spec == Init /\ [][Next]_vars

\* Several start requests in one session: the threads of crawl_from_url beside
\* one another and beside the start and stop handlers.
NextThreads ==
    \/ Start({UrlRoot, <<>>}, {<<>>}, DepthInputs, MaxRuns)
    \/ stop_crawling
    \/ \E i \in 1..Len(runs) : CheckRunning(i)
    \/ \E i \in 1..Len(runs) : SetRunning(i)
    \/ \E i \in 1..Len(runs) : InitQueue(i, {TRUE})
    \/ \E i \in 1..Len(runs) : RecordStart(i, {TRUE})
    \/ \E i \in 1..Len(runs) : Dequeue(i)
    \/ \E i \in 1..Len(runs) : ProcessedCheck(i)
    \/ \E i \in 1..Len(runs) : FetchReturns(i, {PageMarkdown, PageNone}, {TRUE})
    \/ \E i \in 1..Len(runs) : FetchRaises(i, {TRUE})
    \/ \E i \in 1..Len(runs) : ExtractLinks(i, {TRUE})
    \/ \E i \in 1..Len(runs) : Enqueue(i, {TRUE})
    \/ \E i \in 1..Len(runs) : Finally(i)

SpecThreads == Init /\ [][NextThreads]_vars

(********************** a crawl that is left to run ************************)
\* No clear_all_links beside the crawl.  The thread of crawl_from_url is
\* scheduled again and again, and each await of arun returns or raises, so a
\* step of the thread that can be taken is taken in the end.
ThreadStep ==
    \E i \in 1..Len(runs) :
        \/ CheckRunning(i) \/ SetRunning(i) \/ InitQueue(i, {TRUE})
        \/ RecordStart(i, {TRUE}) \/ Dequeue(i) \/ ProcessedCheck(i)
        \/ FetchReturns(i, Pages, {TRUE}) \/ FetchRaises(i, {TRUE})
        \/ ExtractLinks(i, {TRUE}) \/ Enqueue(i, {TRUE}) \/ Finally(i)

NextLive ==
    \/ Start({UrlRoot, UrlOther}, {<<>>}, DepthInputs, MaxStarts)
    \/ stop_crawling
    \/ \E i \in 1..Len(runs) : CheckRunning(i)
    \/ \E i \in 1..Len(runs) : SetRunning(i)
    \/ \E i \in 1..Len(runs) : InitQueue(i, {TRUE})
    \/ \E i \in 1..Len(runs) : RecordStart(i, {TRUE})
    \/ \E i \in 1..Len(runs) : Dequeue(i)
    \/ \E i \in 1..Len(runs) : ProcessedCheck(i)
    \/ \E i \in 1..Len(runs) : FetchReturns(i, Pages, {TRUE})
    \/ \E i \in 1..Len(runs) : FetchRaises(i, {TRUE})
    \/ \E i \in 1..Len(runs) : ExtractLinks(i, {TRUE})
    \/ \E i \in 1..Len(runs) : Enqueue(i, {TRUE})
    \/ \E i \in 1..Len(runs) : Finally(i)
    \/ RetryRead
    \/ RetryWrite

SpecLive == Init /\ [][NextLive]_vars /\ WF_vars(ThreadStep)

(********************* a crawl whose Store calls may fail ******************)
\* The crawl beside the retry handler, where the browser may fail to start
\* and each Store write of the thread may raise sqlite3.Error, which the
\* Store method catches to return False.
NextFaults ==
    \/ Start({UrlRoot, UrlOther}, {<<>>}, DepthInputs, MaxStarts)
    \/ stop_crawling
    \/ \E i \in 1..Len(runs) : CheckRunning(i)
    \/ \E i \in 1..Len(runs) : SetRunning(i)
    \/ \E i \in 1..Len(runs) : InitQueue(i, BOOLEAN)
    \/ \E i \in 1..Len(runs) : RecordStart(i, BOOLEAN)
    \/ \E i \in 1..Len(runs) : Dequeue(i)
    \/ \E i \in 1..Len(runs) : ProcessedCheck(i)
    \/ \E i \in 1..Len(runs) : FetchReturns(i, Pages, BOOLEAN)
    \/ \E i \in 1..Len(runs) : FetchRaises(i, BOOLEAN)
    \/ \E i \in 1..Len(runs) : ExtractLinks(i, BOOLEAN)
    \/ \E i \in 1..Len(runs) : Enqueue(i, BOOLEAN)
    \/ \E i \in 1..Len(runs) : Finally(i)
    \/ RetryRead
    \/ RetryWrite

SpecFaults == Init /\ [][NextFaults]_vars

(******************* start_crawling called past the slider *****************)
\* start_crawling is the function behind the start button and its API
\* endpoint; a client of the endpoint is not held to the slider's range.
ApiDepthInputs == -1..MinDepth

NextApi ==
    \/ Start({UrlRoot}, {<<>>}, ApiDepthInputs, MaxStarts)
    \/ stop_crawling
    \/ \E i \in 1..Len(runs) : CheckRunning(i)
    \/ \E i \in 1..Len(runs) : SetRunning(i)
    \/ \E i \in 1..Len(runs) : InitQueue(i, {TRUE})
    \/ \E i \in 1..Len(runs) : RecordStart(i, {TRUE})
    \/ \E i \in 1..Len(runs) : Dequeue(i)
    \/ \E i \in 1..Len(runs) : ProcessedCheck(i)
    \/ \E i \in 1..Len(runs) : FetchReturns(i, {PageMarkdown, PageNone}, {TRUE})
    \/ \E i \in 1..Len(runs) : FetchRaises(i, {TRUE})
    \/ \E i \in 1..Len(runs) : ExtractLinks(i, {TRUE})
    \/ \E i \in 1..Len(runs) : Enqueue(i, {TRUE})
    \/ \E i \in 1..Len(runs) : Finally(i)

SpecApi == Init /\ [][NextApi]_vars

(************** one crawl, every page and every start URL ******************)
\* One run on the start URLs that validate_url accepts, with or without a
\* host, where arun may return each kind of page.
NextPages ==
    \/ Start({UrlRoot, UrlNoHost}, {<<>>}, DepthInputs, MaxStarts)
    \/ stop_crawling
    \/ \E i \in 1..Len(runs) : CheckRunning(i)
    \/ \E i \in 1..Len(runs) : SetRunning(i)
    \/ \E i \in 1..Len(runs) : InitQueue(i, {TRUE})
    \/ \E i \in 1..Len(runs) : RecordStart(i, {TRUE})
    \/ \E i \in 1..Len(runs) : Dequeue(i)
    \/ \E i \in 1..Len(runs) : ProcessedCheck(i)
    \/ \E i \in 1..Len(runs) : FetchReturns(i, AllPages, {TRUE})
    \/ \E i \in 1..Len(runs) : FetchRaises(i, {TRUE})
    \/ \E i \in 1..Len(runs) : ExtractLinks(i, {TRUE})
    \/ \E i \in 1..Len(runs) : Enqueue(i, {TRUE})
    \/ \E i \in 1..Len(runs) : Finally(i)

SpecPages == Init /\ [][NextPages]_vars

(******************* the extractor and the filter, alone *******************)
\* filter_links and extract_links_from_content are functions of their
\* arguments: a call is drawn at the start and then made; ret holds the
\* arguments and, after the call, the result.
MaxLinks == 2

SeqsUpTo(S, n) == UNION {[1..k -> S] : k \in 0..n}

UrlUpper == <<"http://", "A.COM", "/p1">>
LinkInputs == SeqsUpTo({UrlRoot, UrlP1, UrlP2, UrlOther, UrlUpper}, MaxLinks)
FilterTexts ==
    {<<>>, <<" ">>, <<",">>, <<"a.com">>, <<"A.COM">>, <<"/p1">>,
     <<" ", "a.com", " ", ",", "/p1">>, <<"a.com", ",", "b.com">>}

MarkdownItems ==
    {MdLink(UrlP1 \o <<"#frag">>), MdLink(<<"/rel">>), BareUrl(UrlOther), BareUrl(UrlP1)}
MarkdownInputs == {NULL} \cup {Some(m) : m \in SeqsUpTo(MarkdownItems, MaxLinks) \ {<<>>}}
Hrefs == {UrlP1, UrlP1 \o <<"#frag">>, UrlP2, <<"/rel">>}
HtmlInputs == {NULL} \cup {Some(h) : h \in SeqsUpTo(Hrefs, MaxLinks) \ {<<>>}}

PureCalls ==
    {[fn |-> "filter_links", links |-> l, filter_text |-> f] :
        l \in LinkInputs, f \in FilterTexts}
    \cup {[fn |-> "extract_links_from_content", markdown_text |-> m, html_text |-> h] :
             m \in MarkdownInputs, h \in HtmlInputs}

InitPure ==
    /\ now = 0 /\ db = <<>> /\ is_running = FALSE /\ runs = <<>>
    /\ retry = Idle /\ clear = NoClear /\ log_history = <<>>
    /\ \E c \in PureCalls : ret = [op |-> "call", url |-> <<>>, val |-> c]

CallFilterLinks ==
    /\ ret.op = "call" /\ ret.val.fn = "filter_links"
    /\ ret' = [op |-> "filter_links", url |-> <<>>,
               val |-> [links |-> ret.val.links, filter_text |-> ret.val.filter_text,
                        result |-> filter_links(ret.val.links, ret.val.filter_text)]]
    /\ UNCHANGED <<now, db, is_running, runs, retry, clear, log_history>>

CallExtractLinks ==
    /\ ret.op = "call" /\ ret.val.fn = "extract_links_from_content"
    /\ ret' = [op |-> "extract_links_from_content", url |-> <<>>,
               val |-> [markdown_text |-> ret.val.markdown_text,
                        html_text |-> ret.val.html_text,
                        result |-> extract_links_from_content(ret.val.markdown_text,
                                                              ret.val.html_text)]]
    /\ UNCHANGED <<now, db, is_running, runs, retry, clear, log_history>>

NextPure == CallFilterLinks \/ CallExtractLinks

SpecPure == InitPure /\ [][NextPure]_vars

(************************ LinkDatabase as a library ************************)
\* The public methods called one after another by any client, with any
\* arguments, beside the retry handler; the clock runs, and a write or a query
\* may raise sqlite3.Error.
StoreUrls == {UrlRoot, UrlP1}
Titles == {NULL, Some(<<"T">>), Some(<<>>)}
ContentTypes == {"markdown"}

CallRecordDiscovered(url, title, ok) ==
    LET r == record_link_discovered(db, url, title, now, ok)
    IN  /\ db' = r.db
        /\ ret' = [op |-> "record_link_discovered", url |-> url, val |-> Bool(r.ret)]
        /\ UNCHANGED <<now, is_running, runs, retry, clear, log_history>>

CallUpdateSuccess(url, title, content_type, ok) ==
    LET r == update_link_success(db, url, title, content_type, now, ok)
    IN  /\ db' = r.db
        /\ ret' = [op |-> "update_link_success", url |-> url, val |-> Bool(r.ret)]
        /\ UNCHANGED <<now, is_running, runs, retry, clear, log_history>>

CallUpdateFailed(url, error_message, ok) ==
    LET r == update_link_failed(db, url, error_message, now, ok)
    IN  /\ db' = r.db
        /\ ret' = [op |-> "update_link_failed", url |-> url, val |-> Bool(r.ret)]
        /\ UNCHANGED <<now, is_running, runs, retry, clear, log_history>>

CallIsProcessed(url, ok) ==
    /\ ret' = [op |-> "is_link_processed", url |-> url,
               val |-> Bool(is_link_processed(db, url, ok))]
    /\ UNCHANGED <<now, db, is_running, runs, retry, clear, log_history>>

CallIsExists(url, ok) ==
    /\ ret' = [op |-> "is_link_exists", url |-> url,
               val |-> Bool(is_link_exists(db, url, ok))]
    /\ UNCHANGED <<now, db, is_running, runs, retry, clear, log_history>>

NextStore ==
    \/ \E url \in StoreUrls, title \in Titles, ok \in BOOLEAN :
          CallRecordDiscovered(url, title, ok)
    \/ \E url \in StoreUrls, ok \in BOOLEAN : CallIsProcessed(url, ok)
    \/ \E url \in StoreUrls, ok \in BOOLEAN : CallIsExists(url, ok)
    \/ \E url \in StoreUrls, title \in Titles, ct \in ContentTypes, ok \in BOOLEAN :
          CallUpdateSuccess(url, title, ct, ok)
    \/ \E url \in StoreUrls, msg \in ErrorTexts, ok \in BOOLEAN :
          CallUpdateFailed(url, msg, ok)
    \/ RetryRead
    \/ RetryWrite
    \/ Tick

SpecStore == Init /\ [][NextStore]_vars

(******************************** claims ***********************************)
RunIds == 1..Len(runs)

\* C1: under any interleaving of start requests, stop requests and loop steps,
\* at most one crawl loop is active and at most one page fetch is in flight.
C1_OneLoopOneFetch ==
    /\ Cardinality({i \in RunIds : Running(runs[i])}) <= 1
    /\ Cardinality({i \in RunIds : runs[i].pc = "fetch"}) <= 1

\* C2: once a stop request has reached a running loop, the loop finishes the
\* iteration in flight and then dequeues nothing more: from the loop test it
\* can only leave, after which it has cleared the running flag.
C2_StopHalts ==
    [][\A i \in RunIds :
          runs[i].stop_seen /\ runs[i].pc = "loop" /\ runs'[i] # runs[i]
              => runs'[i].pc = "finally" /\ runs'[i].crawl_queue = runs[i].crawl_queue]_vars

OneRecordPerUrl(t) == \A i, j \in DOMAIN t : t[i].url = t[j].url => i = j

\* C3 (as stated): record_link_discovered(u) inserts a pending record and
\* returns true iff no record for u existed; otherwise it returns false and
\* leaves the record unchanged; there is one record per URL afterwards.
C3_InsertIffAbsent ==
    [][ret'.op = "record_link_discovered" =>
       \A url \in StoreUrls, title \in Titles, ok \in BOOLEAN :
          CallRecordDiscovered(url, title, ok) =>
              LET existed == RowIdx(db, url) # {}
              IN  /\ ret'.val = Bool(~existed)
                  /\ existed => db' = db
                  /\ ~existed => /\ Len(db') = Len(db) + 1
                                 /\ db'[Len(db')].status = "pending"
                  /\ Cardinality(RowIdx(db', url)) = 1]_vars

\* C3 (amended): record_link_discovered(u) inserts a pending record and
\* returns true iff no record for u existed and the write raised no storage
\* error; when a record exists or the write fails it returns false and leaves
\* every record as it was; no URL ever has two records.
C3_InsertIffAbsentAndStored ==
    [][ret'.op = "record_link_discovered" =>
       \A url \in StoreUrls, title \in Titles, ok \in BOOLEAN :
          CallRecordDiscovered(url, title, ok) =>
              LET existed == RowIdx(db, url) # {}
                  last == db'[Len(db')]
              IN  /\ ret'.val = Bool(ok /\ ~existed)
                  /\ (existed \/ ~ok) => db' = db
                  /\ (ok /\ ~existed) =>
                        /\ Len(db') = Len(db) + 1
                        /\ \A i \in DOMAIN db : db'[i] = db[i]
                        /\ last.url = url /\ last.status = "pending"
                        /\ last.title = title /\ last.discovered_at = now
                        /\ last.crawled_at = NULL /\ last.error_message = NULL
                  /\ OneRecordPerUrl(db')]_vars

\* a second discovery of a URL whose record is already failed returned false
C3_Witness ==
    /\ ret.op = "record_link_discovered"
    /\ ret.val = Bool(FALSE)
    /\ \E i \in DOMAIN db : db[i].url = ret.url /\ db[i].status = "failed"

\* C4: whatever store operations have run, and at whatever point of a running
\* crawl the statistics are polled, get_crawl_statistics returns
\* total = pending + success + failed.
C4_TotalIsSum ==
    LET stats == get_crawl_statistics(db)
    IN  stats.total = stats.pending + stats.success + stats.failed

\* a poll during a running crawl that sees records of all three statuses
C4_Witness ==
    LET stats == get_crawl_statistics(db)
    IN  /\ \E i \in RunIds : Running(runs[i])
        /\ stats.pending > 0 /\ stats.success > 0 /\ stats.failed > 0

\* C5: the status of a record changes only along pending -> success,
\* pending -> failed or failed -> pending; never success -> failed,
\* success -> pending or failed -> success.
C5_StatusTransitions ==
    [][\A i \in DOMAIN db, j \in DOMAIN db' :
          db[i].url = db'[j].url /\ db[i].status # db'[j].status =>
              <<db[i].status, db'[j].status>> \in
                  {<<"pending", "success">>, <<"pending", "failed">>,
                   <<"failed", "pending">>}]_vars

\* C6: with max_depth = M no frontier entry, and no entry being processed,
\* has a depth above M, and the links found on a page processed at depth M
\* are neither recorded in the store nor enqueued.
C6_DepthBound ==
    /\ [](\A i \in RunIds :
            /\ \A k \in DOMAIN runs[i].crawl_queue :
                  runs[i].crawl_queue[k][2] <= runs[i].max_depth
            /\ runs[i].current_depth <= runs[i].max_depth)
    /\ [][\A i \in RunIds :
            /\ runs[i].pc = "enqueue" /\ runs'[i].pc # "enqueue"
            /\ runs[i].current_depth = runs[i].max_depth
            => /\ db' = db
               /\ runs'[i].crawl_queue = runs[i].crawl_queue]_vars

\* a page processed at depth M on which new links were found
C6_Witness ==
    \E i \in RunIds :
        /\ runs[i].pc = "enqueue"
        /\ runs[i].current_depth = runs[i].max_depth
        /\ runs[i].new_links # <<>>

\* C7: the frontier is FIFO: a dequeue takes the entry at the front, the
\* depths in the frontier are non-decreasing from front to back and not below
\* the depth last dequeued, so the dequeued depths are non-decreasing.
C7_Fifo ==
    /\ [](\A i \in RunIds :
            LET q == runs[i].crawl_queue
            IN  /\ \A k, l \in DOMAIN q : k <= l => q[k][2] <= q[l][2]
                /\ \A k \in DOMAIN q : runs[i].current_depth <= q[k][2])
    /\ [][\A i \in RunIds :
            runs[i].pc = "loop" /\ runs'[i].pc \in {"fetch", "single"}
            => /\ <<runs'[i].current_url, runs'[i].current_depth>>
                     = Head(runs[i].crawl_queue)
               /\ runs'[i].crawl_queue = Tail(runs[i].crawl_queue)
               /\ runs'[i].current_depth >= runs[i].current_depth]_vars

\* a frontier that holds a depth-1 entry behind a depth-0 entry
C7_Witness ==
    \E i \in RunIds :
        LET q == runs[i].crawl_queue
        IN  /\ runs[i].pc = "loop"
            /\ Len(q) >= 2
            /\ q[1][2] = 0 /\ q[Len(q)][2] = 1

\* C8: when the fetch of a dequeued URL raises, its record is failed with the
\* error text at the end of the iteration, the run is not aborted but goes
\* back to the loop test, and the failed URL is not fetched again in that run.
C8_FetchFailure ==
    /\ [][\A i \in RunIds :
            FetchRaises(i, {TRUE}) =>
                /\ \A k \in DOMAIN db' :
                      db'[k].url = runs[i].current_url =>
                          /\ db'[k].status = "failed"
                          /\ db'[k].error_message \in {Some(e) : e \in ErrorTexts}
                /\ runs'[i].pc = "loop"
                /\ runs'[i].crawl_queue = runs[i].crawl_queue]_vars
    /\ [](\A i \in RunIds :
            runs[i].pc = "fetch" => runs[i].current_url \notin runs[i].fetch_failed)

\* a retry_failed_links call completes its writes without a storage error
RetryReturns == retry.pc = "write" /\ retry'.pc = "idle" /\ ret'.val # NULL

FailedRows(t) == {i \in DOMAIN t : t[i].status = "failed"}

\* C9: the retry reset sets every failed record to pending with no error
\* message and no crawl time, leaves every pending and success record
\* unchanged, and returns the number of records it reset.
C9_ResetFailed ==
    [][RetryReturns =>
          /\ Len(db') = Len(db)
          /\ \A i \in DOMAIN db :
                IF i \in FailedRows(db)
                THEN db'[i] = [db[i] EXCEPT !.status = "pending",
                                            !.error_message = NULL,
                                            !.crawled_at = NULL]
                ELSE db'[i] = db[i]
          /\ ret'.val = Count(Cardinality(FailedRows(db)))]_vars

\* C10: the retry reset never changes a record that is success or pending at
\* the moment of its update, whatever the crawl wrote since the reset read the
\* failed set.
C10_ResetAtomic ==
    [][RetryReturns =>
          \A i \in DOMAIN db :
              db[i].status \in {"success", "pending"} =>
                  \E j \in DOMAIN db' : db'[j] = db[i]]_vars

\* C11: update_link_success and update_link_failed called for a URL that has
\* no record return false and leave the table as it was: no record is
\* created and no other record is modified.
C11_NoRecordNoChange ==
    [][\A url \in StoreUrls, ok \in BOOLEAN :
          RowIdx(db, url) = {} =>
              /\ \A title \in Titles, content_type \in ContentTypes :
                    CallUpdateSuccess(url, title, content_type, ok) =>
                        ret'.val = Bool(FALSE) /\ db' = db
              /\ \A error_message \in ErrorTexts :
                    CallUpdateFailed(url, error_message, ok) =>
                        ret'.val = Bool(FALSE) /\ db' = db]_vars

\* update_link_success returned false for a URL without a record while the
\* table holds another URL's record
C11_Witness ==
    /\ ret.op = "update_link_success"
    /\ ret.val = Bool(FALSE)
    /\ RowIdx(db, ret.url) = {}
    /\ db # <<>>

RecordedUrls(t) == {t[i].url : i \in DOMAIN t}

\* the DELETE of a confirmed clear_all_links commits
ClearReturns == clear.pc = "delete" /\ clear'.pc = "idle" /\ ret'.val # NULL

\* C12: the set of URLs having a record shrinks under no step but a confirmed
\* clear_all_links; clear_all_links without confirmation changes nothing; a
\* confirmed clear_all_links removes every record and returns the number of
\* records it removed.
C12_OnlyClearDeletes ==
    [][/\ ~ClearReturns => RecordedUrls(db) \subseteq RecordedUrls(db')
       /\ clear_all_links(FALSE) => db' = db
       /\ ClearReturns => db' = <<>> /\ ret'.val = Count(Len(db))]_vars

\* a start_crawling call returns
StartReturns == ret'.op = "start_crawling"

\* C13: a start request issued while a run is Running has no side effect: the
\* running run's frontier and counters, the running flag, the table and the
\* log history are as they were, and the caller is not told a task started.
C13_StartWhileRunning ==
    [][StartReturns /\ (\E i \in RunIds : Running(runs[i])) =>
          /\ \A i \in RunIds : runs'[i] = runs[i]
          /\ is_running' = is_running
          /\ db' = db
          /\ log_history' = log_history
          /\ ret'.val # Msg("started")]_vars

Blank(s) == \A k \in DOMAIN s : s[k] = " "

\* an empty, whitespace-only or non-http(s) seed URL
BadSeed(url) == Blank(url) \/ Head(Strip(url)) \notin {"http://", "https://"}

\* a filter spec that has an empty token after trimming
BadFilter(filter_text) ==
    /\ ~Blank(filter_text)
    /\ \E k \in DOMAIN Split(filter_text) : Blank(Split(filter_text)[k])

\* C14: a start request with an empty, whitespace-only or non-http(s) seed
\* URL, or with a filter spec holding an empty token, is rejected before any
\* run starts: no thread is created, the running flag and the table are
\* untouched, and the caller gets the input error.
C14_BadInputRejected ==
    [][StartReturns =>
          \A url \in UrlInputs, link_filters \in FilterInputs, max_depth \in DepthInputs :
              start_crawling(url, link_filters, max_depth)
              /\ (BadSeed(url) \/ BadFilter(link_filters))
              => /\ runs' = runs
                 /\ is_running' = is_running
                 /\ db' = db
                 /\ ret'.val = Msg("input error")]_vars

\* a start request was refused for its input and no run exists
C14_Witness ==
    /\ ret.op = "start_crawling"
    /\ ret.val = Msg("input error")
    /\ runs = <<>>
    /\ ~is_running

\* C15: a start request with a max_depth below the least valid depth (zero,
\* negative) is rejected before a run starts: no run with such a max_depth is
\* ever inside the crawl loop.
C15_BadDepthRejected ==
    \A i \in RunIds : runs[i].max_depth < MinDepth => ~Running(runs[i])

\* C16: with every fetch returning or raising, finitely many URLs and no
\* clear_all_links beside the crawl, every started run comes to its end (the
\* frontier empties or the stop is seen), and the step that ends it clears
\* the running flag.
C16_RunEnds ==
    /\ \A i \in 1..MaxStarts :
          (Len(runs) >= i) ~> (Len(runs) >= i /\ runs[i].pc = "done")
    /\ [][\A i \in RunIds :
            runs[i].pc = "finally" /\ runs'[i].pc = "done" => ~is_running']_vars

\* a run that went through the loop more than once has ended and the flag is
\* cleared
C16_Witness ==
    \E i \in RunIds :
        /\ runs[i].pc = "done"
        /\ runs[i].processed_count >= 2
        /\ ~is_running

QueueUrls(queue) == {queue[k][1] : k \in DOMAIN queue}

\* the host of the page, without a leading "www."
PageHost(url) == get_domain_without_www(netloc(url))

\* C17: a link that does not contain the host (leading "www." stripped) of
\* the page it was found on is neither recorded in the table nor enqueued.
C17_DomainAnchored ==
    [][\A i \in RunIds :
          runs[i].pc = "enqueue" /\ runs'[i].pc = "loop" =>
              \A u \in (RecordedUrls(db') \ RecordedUrls(db))
                       \cup (QueueUrls(runs'[i].crawl_queue)
                                \ QueueUrls(runs[i].crawl_queue)) :
                  Contains(PageHost(runs[i].current_url), u)]_vars

\* a crawl of http://a.com/ with an empty base filter has ended; the pages
\* linked to http://a.com/p1 and http://b.com/x; / and /p1 are success and
\* b.com/x has no record
C17_Witness ==
    \E i \in RunIds :
        /\ runs[i].pc = "done"
        /\ runs[i].start_url = UrlRoot
        /\ runs[i].link_filters = <<",", "a.com">>
        /\ UrlOther \notin RecordedUrls(db)
        /\ \E k, l \in DOMAIN db :
              /\ db[k].url = UrlRoot /\ db[k].status = "success"
              /\ db[k].content_type = Some("markdown")
              /\ db[l].url = UrlP1 /\ db[l].status = "success"

\* the keywords of a filter spec: its comma-separated pieces, trimmed and
\* lower-cased, the empty ones dropped
KeywordsOf(spec) ==
    {Lower(Strip(Split(spec)[k])) : k \in {j \in DOMAIN Split(spec) : ~Blank(Split(spec)[j])}}

HoldsAll(link, spec) == \A kw \in KeywordsOf(spec) : Contains(kw, Lower(link))

\* C18: filter_links(links, spec) returns, in their order, exactly the links
\* whose lower-cased URL contains every keyword of the spec; an empty or
\* whitespace-only spec returns the links unchanged.
C18_FilterLinks ==
    ret.op = "filter_links" =>
        LET links == ret.val.links
            spec == ret.val.filter_text
            result == ret.val.result
            Kept(link) == HoldsAll(link, spec)
        IN  /\ Blank(spec) => result = links
            /\ ~Blank(spec) => result = SelectSeq(links, Kept)

\* two links filtered by two keywords, of which one link holds both and the
\* other only one
C18_Witness ==
    /\ ret.op = "filter_links"
    /\ ret.val.filter_text = <<" ", "a.com", " ", ",", "/p1">>
    /\ ret.val.links = <<UrlRoot, UrlUpper>>
    /\ ret.val.result = <<UrlUpper>>

\* the targets extract_links_from_content collects, in its order: the targets
\* of the markdown links, then every URL in the markdown, then the hrefs
CollectedFrom(markdown_text, html_text) ==
    LET items == IF markdown_text = NULL THEN <<>> ELSE markdown_text[1]
        hrefs == IF html_text = NULL THEN <<>> ELSE html_text[1]
        OfLinks == SelectSeq(items, LAMBDA x : x.kind = "link")
    IN  [k \in DOMAIN OfLinks |-> OfLinks[k].target]
        \o [k \in DOMAIN items |-> items[k].target]
        \o hrefs

MarkdownTargets(markdown_text) ==
    IF markdown_text = NULL THEN {}
    ELSE {markdown_text[1][k].target : k \in DOMAIN markdown_text[1]}

NoFragment(u) == \A k \in DOMAIN u : u[k] # "#frag"

\* u without its fragment, stated apart from the extractor
BeforeFragment(u) ==
    IF NoFragment(u) THEN u
    ELSE SubSeq(u, 1, (CHOOSE k \in DOMAIN u :
                          u[k] = "#frag" /\ \A j \in 1..(k - 1) : u[j] # "#frag") - 1)

\* C19: extract_links_from_content returns a list without duplicates whose
\* elements are the absolute http(s) URLs of the input with the fragment
\* removed, the markdown-sourced ones before those found only in the HTML,
\* each at the place of its first occurrence in the collection order.
C19_ExtractLinks ==
    ret.op = "extract_links_from_content" =>
        LET result == ret.val.result
            collected == CollectedFrom(ret.val.markdown_text, ret.val.html_text)
            Urls19 == {BeforeFragment(collected[k]) :
                          k \in {j \in DOMAIN collected : IsHttp(collected[j])}}
            First(u) == CHOOSE k \in DOMAIN collected :
                            /\ IsHttp(collected[k]) /\ BeforeFragment(collected[k]) = u
                            /\ \A j \in 1..(k - 1) :
                                  ~(IsHttp(collected[j]) /\ BeforeFragment(collected[j]) = u)
            FromMarkdown(u) ==
                \E t \in MarkdownTargets(ret.val.markdown_text) :
                    IsHttp(t) /\ BeforeFragment(t) = u
        IN  /\ \A i, j \in DOMAIN result : result[i] = result[j] => i = j
            /\ \A i \in DOMAIN result : IsHttp(result[i]) /\ NoFragment(result[i])
            /\ {result[i] : i \in DOMAIN result} = Urls19
            /\ \A i, j \in DOMAIN result : i < j => First(result[i]) < First(result[j])
            /\ \A i, j \in DOMAIN result :
                  FromMarkdown(result[i]) /\ ~FromMarkdown(result[j]) => i < j

\* markdown with a link carrying a fragment, HTML with the same URL and one
\* more: the markdown URL comes first, once, without its fragment
C19_Witness ==
    /\ ret.op = "extract_links_from_content"
    /\ ret.val.markdown_text = Some(<<BareUrl(UrlOther), MdLink(UrlP1 \o <<"#frag">>)>>)
    /\ ret.val.html_text = Some(<<UrlP2, UrlP1>>)
    /\ ret.val.result = <<UrlP1, UrlOther, UrlP2>>

\* C20: in every table a record has an error message if and only if its
\* status is failed; update_link_success and the retry reset leave the
\* records they write without one.
C20_ErrorIffFailed ==
    /\ [](\A i \in DOMAIN db : (db[i].error_message # NULL) <=> (db[i].status = "failed"))
    /\ [][/\ RetryReturns =>
               \A i \in DOMAIN db' :
                   db'[i].url \in {retry.failed_links[k] : k \in DOMAIN retry.failed_links}
                       => db'[i].error_message = NULL
          /\ ret'.op = "update_link_success" /\ ret'.val = Bool(TRUE) =>
               \A i \in DOMAIN db' :
                   db'[i].url = ret'.url => db'[i].error_message = NULL]_vars

\* the retry reset has returned after resetting a record, which is pending
\* and has no error message
C20_Witness ==
    /\ ret.op = "retry_failed_links"
    /\ ret.val = Count(1)
    /\ \E i \in DOMAIN db :
          /\ db[i].status = "pending"
          /\ db[i].error_message = NULL
          /\ db[i].discovered_at < now

\* C21: in every table a record has no crawl time if and only if its status
\* is pending; an update_link_success or update_link_failed that matches a
\* record leaves it with the current time as its crawl time.
C21_CrawledIffNotPending ==
    /\ [](\A i \in DOMAIN db : (db[i].crawled_at = NULL) <=> (db[i].status = "pending"))
    /\ [][ret'.op \in {"update_link_success", "update_link_failed"}
             /\ ret'.val = Bool(TRUE) =>
               \A i \in DOMAIN db' :
                   db'[i].url = ret'.url => db'[i].crawled_at = Some(now)]_vars

\* update_link_failed has matched a record that was crawled at an earlier
\* time; the record carries the later time
C21_Witness ==
    /\ ret.op = "update_link_failed"
    /\ ret.val = Bool(TRUE)
    /\ now = 1
    /\ \E i \in DOMAIN db :
          /\ db[i].url = ret.url /\ db[i].status = "failed"
          /\ db[i].discovered_at = 0 /\ db[i].crawled_at = Some(1)
    /\ \E i \in DOMAIN db : db[i].status = "pending" /\ db[i].crawled_at = NULL

\* run i takes a URL to the fetch: a depth-0 entry straight from the dequeue,
\* a deeper one after the processed check
BeginsFetch(i) == runs[i].pc \in {"loop", "single"} /\ runs'[i].pc = "fetch"

HasSuccess(t, url) == \E k \in DOMAIN t : t[k].url = url /\ t[k].status = "success"

\* C22: a record that is success (it stays so from the start of the run until
\* the run fetches it) is taken to the fetch only as the run's seed URL at depth
\* 0; a success record found again as a link on a page is not put in the
\* frontier, and so is not fetched again.
C22_SuccessNotRevisited ==
    [][\A i \in RunIds :
          /\ BeginsFetch(i) /\ HasSuccess(db, runs'[i].current_url) =>
                /\ runs'[i].current_depth = 0
                /\ runs'[i].current_url = runs[i].start_url
          /\ runs[i].pc = "enqueue" /\ runs'[i].pc = "loop" =>
                \A u \in QueueUrls(runs'[i].crawl_queue) \ QueueUrls(runs[i].crawl_queue) :
                    ~HasSuccess(db, u)]_vars

\* a run seeded with http://b.com/x fetched the pending http://a.com/p1, whose
\* page links to http://a.com/, a success record of an earlier session, and to
\* http://www.a.com/p2: only the latter is a new link
C22_Witness ==
    \E i \in RunIds :
        /\ runs[i].pc = "enqueue"
        /\ runs[i].start_url = UrlOther
        /\ runs[i].current_url = UrlP1
        /\ runs[i].new_links = <<UrlP2>>
        /\ HasSuccess(db, UrlRoot)

\* a title that is given and is not the empty string
NonEmptyTitle(title) == title # NULL /\ title[1] # <<>>

\* C23: update_link_success on an existing record sets the title to the
\* incoming title when that title is non-empty, and leaves the stored title
\* as it was when the incoming title is absent or empty.
C23_TitleKeptUnlessGiven ==
    [][\A url \in StoreUrls, title \in Titles, content_type \in ContentTypes :
          CallUpdateSuccess(url, title, content_type, TRUE) =>
              \A i \in RowIdx(db, url) :
                  db'[i].title = IF NonEmptyTitle(title) THEN title ELSE db[i].title]_vars

\* is_link_processed or is_link_exists returns
QueryReturns == ret'.op \in {"is_link_processed", "is_link_exists"}

\* C24 (as stated): is_link_processed(url) is true iff a record for url
\* exists with status success or failed, and is_link_exists(url) is true iff a
\* record for url exists; so is_link_processed(url) implies
\* is_link_exists(url), and a URL just recorded has is_link_exists true and
\* is_link_processed false.
C24_QueriesIff ==
    [][QueryReturns =>
          \A url \in StoreUrls, ok \in BOOLEAN :
              /\ CallIsProcessed(url, ok) =>
                    ret'.val = Bool(\E i \in DOMAIN db :
                                       db[i].url = url
                                       /\ db[i].status \in {"success", "failed"})
              /\ CallIsExists(url, ok) =>
                    ret'.val = Bool(\E i \in DOMAIN db : db[i].url = url)]_vars

\* C24 (amended): is_link_processed(url) is true iff a record for url exists
\* with status success or failed and the query raised no storage error;
\* is_link_exists(url) is true iff a record for url exists and the query
\* raised no storage error; on a storage error either returns false.  With
\* queries that raise no error is_link_processed(url) implies
\* is_link_exists(url), and a URL just recorded has is_link_exists true and
\* is_link_processed false.
C24_QueriesIffNoError ==
    /\ [][/\ QueryReturns =>
                \A url \in StoreUrls, ok \in BOOLEAN :
                    /\ CallIsProcessed(url, ok) =>
                          ret'.val = Bool(ok /\ \E i \in DOMAIN db :
                                                   db[i].url = url
                                                   /\ db[i].status \in {"success", "failed"})
                    /\ CallIsExists(url, ok) =>
                          ret'.val = Bool(ok /\ \E i \in DOMAIN db : db[i].url = url)
          /\ ret'.op = "record_link_discovered" /\ ret'.val = Bool(TRUE) =>
                is_link_exists(db', ret'.url, TRUE) /\ ~is_link_processed(db', ret'.url, TRUE)]_vars
    /\ [](\A url \in StoreUrls :
            is_link_processed(db, url, TRUE) => is_link_exists(db, url, TRUE))

\* is_link_exists returned true for a URL whose record is pending, beside a
\* record of another URL that is failed
C24_Witness ==
    /\ ret.op = "is_link_exists"
    /\ ret.val = Bool(TRUE)
    /\ ~is_link_processed(db, ret.url, TRUE)
    /\ \E i \in DOMAIN db : db[i].url # ret.url /\ db[i].status = "failed"

\* C25: the discovery time of a record is the time of the insert that created
\* it, and no later call changes it: not a repeated record_link_discovered,
\* not update_link_success, not update_link_failed, not the retry reset.
C25_DiscoveredAtFixed ==
    [][/\ Len(db') >= Len(db)
       /\ \A i \in DOMAIN db :
             db'[i].url = db[i].url /\ db'[i].discovered_at = db[i].discovered_at
       /\ \A i \in DOMAIN db' \ DOMAIN db : db'[i].discovered_at = now]_vars

\* a record discovered at time 0 was crawled at time 1 and then discovered
\* again at time 1: it still carries time 0
C25_Witness ==
    /\ ret.op = "record_link_discovered"
    /\ ret.val = Bool(FALSE)
    /\ now = 1
    /\ \E i \in DOMAIN db :
          /\ db[i].url = ret.url /\ db[i].status = "success"
          /\ db[i].crawled_at = Some(1) /\ db[i].discovered_at = 0

\* the table holds a success or failed record for url
HasProcessed(t, url) ==
    \E k \in DOMAIN t : t[k].url = url /\ t[k].status \in {"success", "failed"}

\* C26: an entry dequeued at depth > 0 whose URL has a success or failed
\* record when it is checked is skipped: the run goes back to the loop test
\* without a fetch and without a write to the table or the frontier; an
\* entry dequeued at depth 0 goes to the fetch whatever its record says.
C26_SkipProcessed ==
    /\ [](\A i \in RunIds : runs[i].pc = "single" => runs[i].current_depth > 0)
    /\ [][\A i \in RunIds :
            /\ runs[i].pc = "single" /\ runs'[i] # runs[i]
               /\ HasProcessed(db, runs[i].current_url) =>
                  /\ runs'[i].pc = "loop"
                  /\ db' = db
                  /\ runs'[i].crawl_queue = runs[i].crawl_queue
            /\ runs[i].pc = "loop" /\ runs'[i].pc \notin {"loop", "finally"}
               /\ Head(runs[i].crawl_queue)[2] = 0 =>
                  /\ runs'[i].pc = "fetch"
                  /\ runs'[i].current_url = Head(runs[i].crawl_queue)[1]]_vars

\* two runs enqueued http://a.com/p1 at depth 1; one has fetched it with
\* success, the other has dequeued it and is at the processed check, while a
\* depth-0 entry with a success record is at the fetch
C26_Witness ==
    \E i, j \in RunIds :
        /\ runs[i].pc = "single"
        /\ runs[i].current_depth > 0
        /\ HasSuccess(db, runs[i].current_url)
        /\ runs[j].pc = "fetch"
        /\ runs[j].current_depth = 0
        /\ HasSuccess(db, runs[j].current_url)

PendingUrls(t) == {t[k].url : k \in {j \in DOMAIN t : t[j].status = "pending"}}

\* queue holds each URL of pending once, at depth 0, and then (seed, 0)
FrontierOf(queue, pending, seed) ==
    /\ queue # <<>>
    /\ queue[Len(queue)] = <<seed, 0>>
    /\ Len(queue) - 1 = Cardinality(pending)
    /\ {queue[k][1] : k \in 1..(Len(queue) - 1)} = pending
    /\ \A k \in DOMAIN queue : queue[k][2] = 0

\* C27 (as stated): when the run comes to its loop, the frontier holds the
\* records that are pending in the table (the seed's own insert apart), each
\* once at depth 0, then (seed, 0) as its last entry, and the seed has a
\* record; a success or failed record is in it only as the seed.
C27_InitialFrontier ==
    [][\A i \in RunIds :
          runs[i].pc = "seed" /\ runs'[i].pc = "loop" =>
              /\ FrontierOf(runs'[i].crawl_queue, PendingUrls(db), runs[i].start_url)
              /\ RowIdx(db', runs[i].start_url) # {}]_vars

\* C27 (amended): the frontier the run builds holds the records that are
\* pending when the run reads the table, each once at depth 0, then (seed, 0)
\* as its last entry, or (seed, 0) alone when the read raised a storage
\* error; a success or failed record is in it only as the seed.  The run
\* then inserts the seed's record if there is none and comes to its loop with
\* that frontier; the seed has a record there unless the insert raised a
\* storage error, which leaves the table as it was.
C27_InitialFrontierAsRead ==
    [][\A i \in RunIds :
          /\ runs[i].pc = "init" /\ runs'[i].pc = "seed" =>
                /\ \/ FrontierOf(runs'[i].crawl_queue, PendingUrls(db), runs[i].start_url)
                   \/ runs'[i].crawl_queue = <<<<runs[i].start_url, 0>>>>
                /\ db' = db
          /\ runs[i].pc = "seed" /\ runs'[i].pc = "loop" =>
                /\ runs'[i].crawl_queue = runs[i].crawl_queue
                /\ IF RowIdx(db, runs[i].start_url) # {} THEN db' = db
                   ELSE db' \in {db, Append(db, NewRow(runs[i].start_url, NULL, now))}]_vars

\* a run seeded with http://b.com/x on a table that holds a success record
\* and the pending http://a.com/p1 is at its first loop test: the frontier is
\* p1, then the seed, and the seed has a pending record
C27_Witness ==
    \E i \in RunIds :
        /\ runs[i].pc = "loop"
        /\ runs[i].processed_count = 0
        /\ runs[i].crawl_queue = <<<<UrlP1, 0>>, <<UrlOther, 0>>>>
        /\ HasSuccess(db, UrlRoot)
        /\ PendingUrls(db) = {UrlP1, UrlOther}

\* the entries of the frontier of run i after the step that were not in it
\* before
Enqueued(i) ==
    {runs'[i].crawl_queue[k] :
        k \in (Len(runs[i].crawl_queue) + 1)..Len(runs'[i].crawl_queue)}

\* C28: a link is enqueued at depth + 1 only if, at that moment, it passes
\* the filter, has no record in the table and is not in the frontier; so no
\* URL is enqueued at depth > 0 while it is queued or has a record, and each
\* enqueue comes with the insert of a record for the same URL.
C28_EnqueueOnlyNew ==
    [][\A i \in RunIds :
          runs[i].pc = "enqueue" /\ runs'[i].pc = "loop" =>
              \A entry \in Enqueued(i) :
                  /\ entry[2] = runs[i].current_depth + 1
                  /\ filter_links(<<entry[1]>>, runs[i].link_filters) = <<entry[1]>>
                  /\ entry[1] \notin RecordedUrls(db)
                  /\ entry[1] \notin QueueUrls(runs[i].crawl_queue)
                  /\ entry[1] \in RecordedUrls(db')]_vars

\* filter_links keeps the link under the filter spec
Accepts(spec, link) == filter_links(<<link>>, spec) = <<link>>

\* run i takes an entry off its frontier
Dequeues(i) == runs[i].pc = "loop" /\ runs'[i].pc \in {"fetch", "single"}

\* C29: the filter applied to the links of a page is the base filter with
\* that page's host (leading "www." stripped) appended: which links of page u
\* are kept depends on the base filter and the host of u alone, not on the
\* pages the run processed before.
C29_FilterOfPageOnly ==
    [][\A i \in RunIds :
          Dequeues(i) =>
              \A link \in Urls :
                  Accepts(runs'[i].link_filters, link)
                  <=> Accepts(runs[i].base_filters \o <<",">>
                                  \o PageHost(runs'[i].current_url), link)]_vars

IsPrefix(s, t) == Len(s) <= Len(t) /\ SubSeq(t, 1, Len(s)) = s

\* C30: within a run the filter string only grows: what it held stays, so
\* every keyword in it at one iteration is in it at every later one; the
\* host of a dequeued URL is in the filter from its iteration on; and a link
\* the filter accepts after a step was accepted before it.
C30_FilterGrows ==
    /\ [][\A i \in RunIds :
            /\ runs'[i].link_filters # runs[i].link_filters =>
                  /\ IsPrefix(runs[i].link_filters, runs'[i].link_filters)
                  /\ KeywordsOf(runs[i].link_filters)
                         \subseteq KeywordsOf(runs'[i].link_filters)
                  /\ \A link \in Urls :
                        Accepts(runs'[i].link_filters, link)
                            => Accepts(runs[i].link_filters, link)
            /\ Dequeues(i) =>
                  Contains(PageHost(runs'[i].current_url), runs'[i].link_filters)]_vars
    /\ [](\A i \in RunIds :
            runs[i].pc \in {"single", "fetch", "links", "enqueue"} =>
                Contains(PageHost(runs[i].current_url), runs[i].link_filters))

\* a run that processed a page of a.com and then one of b.com filters the
\* links of the second page by both hosts
C30_Witness ==
    \E i \in RunIds :
        /\ runs[i].pc = "links"
        /\ runs[i].current_url = UrlOther
        /\ runs[i].base_filters = <<>>
        /\ runs[i].link_filters = <<",", "a.com", ",", "b.com">>

\* C31: a fetch that returns records one content type with the success:
\* markdown where the page has markdown, else html where it has HTML, else
\* placeholder; a page with neither is a success that adds no link to the
\* frontier and no record to the table.
C31_ContentTypeByPriority ==
    [][\A i \in RunIds : runs[i].pc = "fetch" =>
         \A page \in AllPages : FetchReturns(i, {page}, {TRUE}) =>
            /\ \A k \in 1..Len(db') : db'[k].url = runs[i].current_url =>
                  /\ db'[k].status = "success"
                  /\ db'[k].content_type =
                        Some(IF page.markdown # NULL THEN "markdown"
                             ELSE IF page.html # NULL THEN "html"
                             ELSE "placeholder")
            /\ (page.markdown = NULL /\ page.html = NULL) =>
                  /\ runs'[i].pc = "loop"
                  /\ runs'[i].crawl_queue = runs[i].crawl_queue
                  /\ runs'[i].new_links = <<>>
                  /\ UrlColumn(db') = UrlColumn(db)
                  /\ runs'[i].success_count = runs[i].success_count + 1]_vars

\* a page with markdown and HTML was recorded as markdown, and an empty page
\* as placeholder
C31_Witness ==
    /\ \E i \in RunIds :
          /\ runs[i].pc = "links" /\ runs[i].page = PageBoth
          /\ \E k \in 1..Len(db) : /\ db[k].url = runs[i].current_url
                                    /\ db[k].content_type = Some("markdown")
    /\ \E k \in 1..Len(db) : /\ db[k].status = "success"
                              /\ db[k].content_type = Some("placeholder")

\* C32: a Store write that fails (the INSERT of a discovered link, the UPDATE
\* to success or to failed) does not end the run: each step of an iteration
\* goes on to the next step with the frontier kept, and the loop is left only
\* on an empty frontier or a cleared flag (or before it, when the browser does
\* not start).
C32_WriteFailureContinues ==
    [][\A i \in RunIds :
         /\ (runs[i].pc \in {"seed", "fetch", "links", "enqueue"} /\ runs'[i].pc # runs[i].pc) =>
               /\ runs'[i].pc \in {"loop", "links", "enqueue"}
               /\ IsPrefix(runs[i].crawl_queue, runs'[i].crawl_queue)
         /\ (runs'[i].pc = "finally" /\ runs[i].pc # "finally") =>
               \/ runs[i].pc = "init"
               \/ /\ runs[i].pc = "loop"
                  /\ runs[i].crawl_queue = <<>> \/ ~is_running]_vars

\* the INSERT of the start URL failed, and the run went through both entries
\* of its frontier
C32_Witness ==
    \E i \in RunIds :
        /\ runs[i].pc = "done"
        /\ runs[i].processed_count = 2
        /\ runs[i].crawl_queue = <<>>
        /\ runs[i].start_url \notin RecordedUrls(db)

\* C33: the frontier of a run never holds two entries with the same URL, so
\* no URL is fetched twice in a run, also when the start URL is a pending
\* record at the start of the run.
C33_NoDuplicateInFrontier ==
    \A i \in RunIds :
        \A j, k \in 1..Len(runs[i].crawl_queue) :
            j # k => runs[i].crawl_queue[j][1] # runs[i].crawl_queue[k][1]

\* C34: a loop that a stop request has reached never dequeues again, whatever
\* is started after the request; and a loop that ends does not clear the
\* running flag while another loop is inside its while loop.
C34_StopIsPerLoop ==
    [][\A i \in RunIds :
         /\ runs[i].stop_seen => ~Dequeues(i)
         /\ (runs[i].pc = "finally" /\ runs'[i].pc = "done"
               /\ \E j \in RunIds : j # i /\ Running(runs[j]))
              => is_running' = is_running]_vars

\* stop_crawling returns in this step
StopReturns == ret'.op = "stop_crawling"

\* C35: a stop request made after start_crawling returned "started" is not
\* lost: also when the thread of the run has not yet set the running flag,
\* the request is taken (it is not answered with "no task is running") and
\* leaves a signal that the run will read.
C35_StopAfterStartTaken ==
    [][(StopReturns /\ \E i \in RunIds : runs[i].pc \in {"check", "set"}) =>
          /\ ret'.val = Msg("stop sent")
          /\ <<is_running, runs>>' # <<is_running, runs>>]_vars

\* The run has left its while loop with nothing in its frontier, after it
\* dequeued at least its start URL.
ExitedOnEmptyFrontier(r) ==
    r.pc \in {"finally", "done"} /\ r.crawl_queue = <<>> /\ r.processed_count > 0

\* C36: when a run has left its loop on an empty frontier, no record is
\* pending: what was pending at its start or discovered in it is success or
\* failed (no retry, no clear_all_links and no failing write beside the run).
C36_NoPendingLeft ==
    \A i \in RunIds : ExitedOnEmptyFrontier(runs[i]) => PendingUrls(db) = {}

\* C37: while a run is in its loop every URL of its frontier, and the URL it
\* is about to fetch, has a record; an entry of depth > 0 is pending when it
\* is dequeued, so the processed check never skips an entry and the UPDATE to
\* success or failed always finds its row (no clear_all_links and no failing
\* write beside the run).
C37_FrontierRecorded ==
    /\ [](\A i \in RunIds :
            /\ Running(runs[i]) => QueueUrls(runs[i].crawl_queue) \subseteq RecordedUrls(db)
            /\ runs[i].pc = "fetch" => runs[i].current_url \in RecordedUrls(db))
    /\ [][\A i \in RunIds :
            /\ (Dequeues(i) /\ Head(runs[i].crawl_queue)[2] > 0) =>
                  Head(runs[i].crawl_queue)[1] \in PendingUrls(db)
            /\ ~(runs[i].pc = "single" /\ runs'[i].pc = "loop")]_vars

\* C38: an iteration records one outcome for its URL: once the page is saved
\* and the URL recorded as a success, no later step of the same iteration
\* (the extraction of links, the filter, the enqueue) records it as failed.
C38_OneOutcomePerIteration ==
    [][\A i \in RunIds :
         (runs[i].pc \in {"links", "enqueue"} /\ runs'[i].pc # runs[i].pc
            /\ HasSuccess(db, runs[i].current_url))
         => HasSuccess(db', runs[i].current_url)]_vars

\* C39: the count of successes is raised only for a dequeued URL whose record
\* the iteration has set to success (not for an entry that was skipped as
\* processed, nor for one whose UPDATE to success returned False), and it
\* never exceeds the count of processed entries, which is raised by one at
\* each dequeue.
C39_SuccessCountIsSuccesses ==
    /\ [](\A i \in RunIds : runs[i].success_count <= runs[i].processed_count)
    /\ [][\A i \in RunIds :
            /\ runs'[i].success_count # runs[i].success_count =>
                  /\ runs'[i].success_count = runs[i].success_count + 1
                  /\ runs[i].pc \in {"fetch", "enqueue"}
                  /\ HasSuccess(db', runs[i].current_url)
            /\ runs'[i].processed_count # runs[i].processed_count =>
                  /\ Dequeues(i)
                  /\ runs'[i].processed_count = runs[i].processed_count + 1]_vars

\* C40: the filter that the loop hands to filter_links passes the validation
\* of the start handler: no piece between its commas is blank, also when the
\* host was appended to an empty base filter.
C40_LoopFilterWellFormed ==
    \A i \in RunIds :
        (runs[i].pc = "links" /\ FilteredCountBound(runs[i].link_filters))
        => validate_link_filters(runs[i].link_filters) # NULL
====
